---- MODULE Spec2Model ----
(***************************************************************************)
(* Model of the LiteRT-LM API server: the output parser                    *)
(* (litert-parser.js, parseLiteRTOutput) and the process invocation        *)
(* (server.js, runLiteRT) with the request handlers that start it.         *)
(*                                                                         *)
(* A JavaScript string is a sequence of tokens.  A token is an atomic      *)
(* piece of text (a word, a marker literal, one space, one newline), so    *)
(* String.includes(marker) is a search for the marker's token sequence and *)
(* String.split('\n') cuts at the newline token.  No two tokens of the     *)
(* alphabet below concatenate to a marker literal.                         *)
(***************************************************************************)
EXTENDS Integers, Sequences, FiniteSets, TLC

\* ------------------------------------------------------------------ bounds

\* Largest number of lines of an enumerated parser input.
MaxLines == 4

\* Largest number of words of an enumerated answer of the synthesizer.
MaxWords == 11

\* ------------------------------------------------------------ string tokens

SP == " "
NL == "\n"

\* The characters String.prototype.trim removes.
IsWs(t) == t \in {SP, NL}

RECURSIVE TrimStart(_)
TrimStart(s) ==
  IF s = <<>> THEN <<>>
  ELSE IF IsWs(Head(s)) THEN TrimStart(Tail(s)) ELSE s

RECURSIVE TrimEnd(_)
TrimEnd(s) ==
  IF s = <<>> THEN <<>>
  ELSE IF IsWs(s[Len(s)]) THEN TrimEnd(SubSeq(s, 1, Len(s) - 1)) ELSE s

\* String.prototype.trim
Trim(s) == TrimEnd(TrimStart(s))

\* String.prototype.indexOf(m), 1-based; 0 when m does not occur in s.
IndexOf(s, m) ==
  LET hits == {i \in 1..(Len(s) - Len(m) + 1) : SubSeq(s, i, i + Len(m) - 1) = m}
  IN  IF hits = {} THEN 0 ELSE CHOOSE i \in hits : \A j \in hits : i <= j

\* String.prototype.includes(m)
Includes(s, m) == IndexOf(s, m) # 0

\* String.prototype.split(sep) for a one-token separator: never empty.
RECURSIVE SplitOn(_, _)
SplitOn(s, sep) ==
  LET k == IndexOf(s, <<sep>>)
  IN  IF k = 0 THEN <<s>>
      ELSE <<SubSeq(s, 1, k - 1)>> \o SplitOn(SubSeq(s, k + 1, Len(s)), sep)

\* Array.prototype.join(sep) for a one-token separator.
RECURSIVE JoinWith(_, _)
JoinWith(ls, sep) ==
  IF ls = <<>> THEN <<>>
  ELSE IF Len(ls) = 1 THEN ls[1]
  ELSE ls[1] \o <<sep>> \o JoinWith(Tail(ls), sep)

\* ------------------------------------------------------------ marker catalog

responseMarkers ==
  << <<"Response:">>, <<"Generated text:">>, <<"Output:">>, <<"Assistant:">>,
     <<"Model output:">>, <<"Generation:">>, <<"model", NL>> >>

endMarkers ==
  << <<"Prefill:">>, <<"Decode:">>, <<"Peak memory">>, <<"Tokens/sec">>,
     <<"Performance:">>, <<"Benchmark results:">>, <<"---">>, <<"===">>,
     <<"I0000">>, <<"W0000">>, <<"E0000">>, <<"F0000">> >>

\* The tokens that begin with a severity letter and four digits: the regular
\* expression /^[IWEF]\d{4}/ matches a line exactly when the line starts with one.
SeverityTokens == {"I0000", "W0000", "E0000", "F0000", "I0001", "W0001", "E0001", "F0001"}

MatchesLogPrefix(line) == line # <<>> /\ line[1] \in SeverityTokens

\* The condition of the log-skip loop: the first line that is no log line and
\* not blank.
IsBodyLine(line) ==
  /\ ~MatchesLogPrefix(line)
  /\ ~Includes(line, <<"INFO:">>)
  /\ ~Includes(line, <<"WARNING:">>)
  /\ Trim(line) # <<>>

HasEndMarker(line) == \E k \in 1..Len(endMarkers) : Includes(line, endMarkers[k])

HasResponseMarker(line) == \E k \in 1..Len(responseMarkers) : Includes(line, responseMarkers[k])

\* The first marker, in catalog order, that the line includes (0 when none).
FirstResponseMarker(line) ==
  LET hits == {k \in 1..Len(responseMarkers) : Includes(line, responseMarkers[k])}
  IN  IF hits = {} THEN 0 ELSE CHOOSE k \in hits : \A j \in hits : k <= j

\* line.substring(markerIndex + marker.length).trim()
AfterMarker(line, k) ==
  LET m == responseMarkers[k]
  IN  Trim(SubSeq(line, IndexOf(line, m) + Len(m), Len(line)))

SENTINEL == <<"No", SP, "response", SP, "generated">>

\* ------------------------------------------------- parseLiteRTOutput, by line

\* The log-skip loop: the 0-based index of the first body line; the variable
\* keeps its initial value 0 when the loop finds none.
SkipLogs(ls) ==
  LET hits == {i \in 0..(Len(ls) - 1) : IsBodyLine(ls[i + 1])}
  IN  IF hits = {} THEN 0 ELSE CHOOSE i \in hits : \A j \in hits : i <= j

\* The parser's loop state before the primary scan.
ScanInit == [response |-> <<>>, inResponse |-> FALSE, foundResponseMarker |-> FALSE,
             stopped |-> FALSE]

\* The marker test of one iteration: sets the flags and, when text follows the
\* marker on the line, overwrites the buffer with it.
MarkerStep(st, line) ==
  LET k == FirstResponseMarker(line)
  IN  IF k = 0 THEN st
      ELSE [st EXCEPT !.inResponse = TRUE,
                      !.foundResponseMarker = TRUE,
                      !.response = IF AfterMarker(line, k) # <<>>
                                   THEN AfterMarker(line, k) ELSE @]

\* Whether an iteration's collecting block runs for the line at 0-based index i.
CollectGuard(st, i) == st.inResponse /\ i > 0

\* The collecting block of one iteration.
CollectStep(st, line, i) ==
  IF ~CollectGuard(st, i) THEN st
  ELSE IF st.response = <<>> /\ Trim(line) = <<>> THEN st
  ELSE IF Trim(line) # <<>>
       THEN [st EXCEPT !.response = (IF @ # <<>> THEN @ \o <<NL>> ELSE @) \o line]
       ELSE st

\* ScanLine stopping at an end marker whether or not a response has begun.
ScanLineStopAnywhere(st, line, i) ==
  IF HasEndMarker(line)
  THEN [st EXCEPT !.stopped = TRUE]
  ELSE CollectStep(MarkerStep(st, line), line, i)

\* One iteration of the primary scan on the line at 0-based index i.
ScanLine(st, line, i) ==
  IF HasEndMarker(line) /\ st.inResponse
  THEN [st EXCEPT !.stopped = TRUE]
  ELSE CollectStep(MarkerStep(st, line), line, i)

\* The primary scan from 0-based index i to the end or to its break.
RECURSIVE PrimaryScan(_, _, _)
PrimaryScan(st, ls, i) ==
  IF i >= Len(ls) \/ st.stopped THEN st
  ELSE PrimaryScan(ScanLine(st, ls[i + 1], i), ls, i + 1)

\* The lines the fallback scan collects from 0-based index i.
RECURSIVE FallbackLines(_, _)
FallbackLines(ls, i) ==
  IF i >= Len(ls) THEN <<>>
  ELSE IF HasEndMarker(ls[i + 1]) THEN <<>>
  ELSE (IF Trim(ls[i + 1]) # <<>> THEN <<ls[i + 1]>> ELSE <<>>) \o FallbackLines(ls, i + 1)

\* FallbackScan joining the collected lines with a space, not a newline.
FallbackScanJoinSpace(st, ls, start) ==
  IF ~st.foundResponseMarker /\ start < Len(ls)
  THEN JoinWith(FallbackLines(ls, start), SP)
  ELSE st.response

\* The buffer after the fallback block.
FallbackScan(st, ls, start) ==
  IF ~st.foundResponseMarker /\ start < Len(ls)
  THEN JoinWith(FallbackLines(ls, start), NL)
  ELSE st.response

\* response.replace(/\n<prefix>.*$/s, '').trim()
StripFrom(s, pat) ==
  LET k == IndexOf(s, pat)
  IN  Trim(IF k = 0 THEN s ELSE SubSeq(s, 1, k - 1))

perfPatterns ==
  << <<NL, "Prefill:">>, <<NL, "Decode:">>, <<NL, "Peak memory">>, <<NL, "Tokens/sec">> >>

RECURSIVE StripAll(_, _)
StripAll(s, k) ==
  IF k > Len(perfPatterns) THEN s ELSE StripAll(StripFrom(s, perfPatterns[k]), k + 1)

\* Cleanup without the final '|| "No response generated"'.
CleanupNoSentinel(buf) == StripAll(Trim(buf), 1)

\* The clean-up of the buffer and the returned value.
Cleanup(buf) ==
  LET r == StripAll(Trim(buf), 1)
  IN  IF r = <<>> THEN SENTINEL ELSE r

parseLiteRTOutput(output) ==
  LET ls    == SplitOn(output, NL)
      start == SkipLogs(ls)
      st    == PrimaryScan(ScanInit, ls, start)
  IN  Cleanup(FallbackScan(st, ls, start))

\* ------------------------------------------------- parseStructuredOutput

\* The tokens that are decimal numerals, and parseFloat on them.
NumberTokens == {"0", "7", "120"}

parseFloat(t) == CASE t = "0" -> 0 [] t = "7" -> 7 [] t = "120" -> 120

\* String.prototype.toLowerCase on the tokens that have letters in upper case;
\* two tokens match under the regular expressions' i flag when they are equal
\* in lower case.
ToLower(t) ==
  CASE t = "Prefill:" -> "prefill:"
    [] t = "Decode:" -> "decode:"
    [] t = "Peak memory" -> "peak memory"
    [] t = "Tokens/sec" -> "tokens/sec"
    [] t = "MB" -> "mb"
    [] OTHER -> t

\* The three categories: the key written, the literal the line is tested for
\* and the pattern starts with, and the unit the pattern ends with.
MetricCategories ==
  << [key |-> "prefillTokensPerSec", prefix |-> "Prefill:", unit |-> "tokens/sec"],
     [key |-> "decodeTokensPerSec", prefix |-> "Decode:", unit |-> "tokens/sec"],
     [key |-> "peakMemoryMB", prefix |-> "Peak memory", unit |-> "MB"] >>

\* The positions of the numerals after position p that are followed, after
\* any white space, by the unit.
NumeralsWithUnit(line, p, unit) ==
  {j \in (p + 1)..Len(line) :
     /\ line[j] \in NumberTokens
     /\ \E u \in (j + 1)..Len(line) :
          /\ ToLower(line[u]) = ToLower(unit)
          /\ \A q \in (j + 1)..(u - 1) : IsWs(line[q])}

\* line.match(/<prefix>.*?(\d+\.?\d*)\s*<unit>/i): the captured numeral in a
\* one-element sequence, empty when there is no match.  The match starts at
\* the leftmost prefix that has a numeral with the unit after it, and the lazy
\* .*? stops at the first such numeral.
MatchMetric(line, prefix, unit) ==
  LET starts == {p \in 1..Len(line) :
                   ToLower(line[p]) = ToLower(prefix) /\ NumeralsWithUnit(line, p, unit) # {}}
  IN  IF starts = {} THEN <<>>
      ELSE LET p  == CHOOSE x \in starts : \A y \in starts : x <= y
               js == NumeralsWithUnit(line, p, unit)
           IN  <<line[CHOOSE j \in js : \A k \in js : j <= k]>>

\* The number one category's block reads from a line, in a one-element
\* sequence; empty when the line fails the includes test or the pattern.
MetricOf(line, c) ==
  IF Includes(line, <<c.prefix>>) THEN MatchMetric(line, c.prefix, c.unit) ELSE <<>>

\* result.metrics before the loop: no key.
NoMetrics == [k \in {} |-> 0]

\* result.metrics.<key> = v
PutMetric(m, key, v) == [k \in DOMAIN m \cup {key} |-> IF k = key THEN v ELSE m[k]]

\* One category's block of the loop body.
SetMetric(m, line, c) ==
  IF MetricOf(line, c) # <<>> THEN PutMetric(m, c.key, parseFloat(MetricOf(line, c)[1])) ELSE m

\* One category's block writing the key only when the record has none yet.
SetMetricOnce(m, line, c) ==
  IF MetricOf(line, c) # <<>> /\ c.key \notin DOMAIN m
  THEN PutMetric(m, c.key, parseFloat(MetricOf(line, c)[1])) ELSE m

\* MetricsLine keeping the value of the first matching line of a category.
MetricsLineKeepFirst(m, line) ==
  SetMetricOnce(SetMetricOnce(SetMetricOnce(m, line, MetricCategories[1]),
                              line, MetricCategories[2]),
                line, MetricCategories[3])

\* The loop body on one line: the three blocks in order.
MetricsLine(m, line) ==
  SetMetric(SetMetric(SetMetric(m, line, MetricCategories[1]),
                      line, MetricCategories[2]),
            line, MetricCategories[3])

\* ------------------------------------------- streamResponse, the chunking

chunkSize == 5

\* Words without the empty strings that split leaves between two spaces.
WordsNonEmpty(fullResponse) == SelectSeq(SplitOn(fullResponse, SP), LAMBDA w : w # <<>>)

\* fullResponse.split(' ')
Words(fullResponse) == SplitOn(fullResponse, SP)

Min(a, b) == IF a <= b THEN a ELSE b

\* Window with its end one word short.
WindowShort(ws, i) == SubSeq(ws, i + 1, Min(i + chunkSize - 1, Len(ws)))

\* words.slice(i, i + chunkSize)
Window(ws, i) == SubSeq(ws, i + 1, Min(i + chunkSize, Len(ws)))

\* ChunkAt with the trailing space on every chunk, the last one too.
ChunkAtAlwaysSpace(ws, i) == JoinWith(Window(ws, i), SP) \o <<SP>>

\* The value yielded by the loop iteration with loop variable i.
ChunkAt(ws, i) ==
  JoinWith(Window(ws, i), SP) \o (IF i + chunkSize < Len(ws) THEN <<SP>> ELSE <<>>)

\* --------------------------------------------------------------- the state

VARIABLES
  \* parseLiteRTOutput, one call run line by line
  input,        \* the call's argument (output)
  lines,        \* output.split('\n')
  startIndex,   \* 0-based index where the scans start
  idx,          \* the primary scan's loop variable i
  scan,         \* response, inResponse, foundResponseMarker, and whether the loop broke
  ppc,          \* where the call is: idle, begin, scan, fallback, cleanup, done
  parsed,       \* the returned string
  \* parseStructuredOutput, one call run line by line
  rawOutput,    \* the call's argument (output)
  mlines,       \* output.split('\n')
  mIdx,         \* how many lines the loop has processed
  result,       \* the result record: response, metrics
  mpc,          \* where the call is: idle, begin, loop, done
  \* streamResponse's loop, one run on a given answer
  fullResponse, \* the answer the invocation resolved with
  words,        \* fullResponse.split(' ')
  wordIdx,      \* the loop variable i
  chunks,       \* the values yielded so far
  spc,          \* where the generator is: idle, begin, loop, sleep, done
  \* the server, per request
  req,          \* the request received, NoReq before it arrives
  res,          \* the response: status line written, stream ended
  proc,         \* the child process: none, running, failed, closed
  output,       \* runLiteRT's stdout capture
  error,        \* runLiteRT's stderr capture
  exitCode,     \* the code the close event delivered
  promise,      \* runLiteRT's promise
  spawns,       \* how many times spawn was called for the request
  dataEvents,   \* data events delivered so far, over all processes
  handler,      \* the route handler: where it is suspended, streamResponse's i
  sse,          \* the events written to the response with res.write
  client        \* the client's connection: open, gone

parserVars == <<input, lines, startIndex, idx, scan, ppc, parsed>>
metricsVars == <<rawOutput, mlines, mIdx, result, mpc>>
synthVars == <<fullResponse, words, wordIdx, chunks, spc>>
serverVars == <<req, res, proc, output, error, exitCode, promise, spawns, dataEvents,
                handler, sse, client>>
vars == <<input, lines, startIndex, idx, scan, ppc, parsed,
          rawOutput, mlines, mIdx, result, mpc,
          fullResponse, words, wordIdx, chunks, spc,
          req, res, proc, output, error, exitCode, promise, spawns, dataEvents,
          handler, sse, client>>

\* ------------------------------------------------------ the parser's inputs

\* The scenario of the documentation: a log line, the marked answer, a metrics line.
ScenarioStdout ==
  <<"I0001", SP, "00:00:00", SP, "init", NL,
    "Response:", SP, "Paris", SP, "is", SP, "the", SP, "capital", SP, "of", SP, "France.", NL,
    "Prefill:", SP, "120", SP, "tokens/sec", NL>>

ScenarioAnswer ==
  <<"Paris", SP, "is", SP, "the", SP, "capital", SP, "of", SP, "France.">>

\* The line shapes the enumerated inputs are built from: blank, a log line,
\* a response marker alone and with text, a body line with blanks around it,
\* an end-marker line, a log line that is an end marker too, a line with an
\* end marker before a response marker, and a line with a textual log prefix.
LineShapes ==
  { <<>>,
    <<"I0001", SP, "init">>,
    <<"Response:">>,
    <<"Response:", SP, "a">>,
    <<SP, "b", SP>>,
    <<"Prefill:", SP, "x">>,
    <<"I0000", SP, "x">>,
    <<"Decode:", SP, "Output:", SP, "c">>,
    <<"INFO:", SP, "x">> }

LineSeqs == UNION {[1..n -> LineShapes] : n \in 1..MaxLines}

\* The enumerated inputs, and the stdout of the documented scenario.
ParserInputs == {JoinWith(ls, NL) : ls \in LineSeqs} \cup {ScenarioStdout}

\* ------------------------------------------------------- the parser's steps

ParserIdle ==
  /\ input = <<>>
  /\ lines = <<>>
  /\ startIndex = 0
  /\ idx = 0
  /\ scan = ScanInit
  /\ ppc = "idle"
  /\ parsed = <<>>

\* Lines 10-51: split the text and skip the initial log lines.
ParseBegin ==
  /\ ppc = "begin"
  /\ lines' = SplitOn(input, NL)
  /\ startIndex' = SkipLogs(lines')
  /\ idx' = startIndex'
  /\ scan' = ScanInit
  /\ ppc' = "scan"
  /\ UNCHANGED <<input, parsed>>
  /\ UNCHANGED <<metricsVars, synthVars, serverVars>>

\* Lines 53-94: one iteration of the primary scan.
ScanStep ==
  /\ ppc = "scan"
  /\ idx < Len(lines)
  /\ scan' = ScanLine(scan, lines[idx + 1], idx)
  /\ idx' = IF scan'.stopped THEN idx ELSE idx + 1
  /\ ppc' = IF scan'.stopped \/ idx + 1 >= Len(lines) THEN "fallback" ELSE "scan"
  /\ UNCHANGED <<input, lines, startIndex, parsed>>
  /\ UNCHANGED <<metricsVars, synthVars, serverVars>>

\* A fallback that runs whether or not a response marker was found.
FallbackStepAlways ==
  /\ ppc = "fallback"
  /\ scan' = [scan EXCEPT !.response = JoinWith(FallbackLines(lines, startIndex), NL)]
  /\ ppc' = "cleanup"
  /\ UNCHANGED <<input, lines, startIndex, idx, parsed>>
  /\ UNCHANGED <<metricsVars, synthVars, serverVars>>

\* Lines 96-115: the fallback scan, when no response marker was found.
FallbackStep ==
  /\ ppc = "fallback"
  /\ scan' = [scan EXCEPT !.response = FallbackScan(scan, lines, startIndex)]
  /\ ppc' = "cleanup"
  /\ UNCHANGED <<input, lines, startIndex, idx, parsed>>
  /\ UNCHANGED <<metricsVars, synthVars, serverVars>>

\* Lines 117-132: trim, strip trailing metrics, return.
CleanupStep ==
  /\ ppc = "cleanup"
  /\ parsed' = Cleanup(scan.response)
  /\ ppc' = "done"
  /\ UNCHANGED <<input, lines, startIndex, idx, scan>>
  /\ UNCHANGED <<metricsVars, synthVars, serverVars>>

\* ------------------------------------------ parseStructuredOutput's steps

\* The line shapes of the enumerated raw texts: a Prefill line, a Prefill
\* line with another number, no space before the unit and the unit
\* capitalised, a Prefill line with no number, a Decode line with the number
\* zero, a Peak memory line, a line with two categories, and an answer line.
MetricLineShapes ==
  { <<"Prefill:", SP, "120", SP, "tokens/sec">>,
    <<"Prefill:", SP, "7", "Tokens/sec">>,
    <<"Prefill:", SP, "x">>,
    <<"Decode:", SP, "0", SP, "tokens/sec">>,
    <<"Peak memory", SP, "120", SP, "MB">>,
    <<"Prefill:", SP, "7", SP, "tokens/sec", SP, "Decode:", SP, "120", SP, "tokens/sec">>,
    <<"Response:", SP, "a">> }

MetricLineSeqs == UNION {[1..n -> MetricLineShapes] : n \in 1..MaxLines}

MetricsInputs == {JoinWith(ls, NL) : ls \in MetricLineSeqs} \cup {ScenarioStdout}

NoResult == [response |-> <<>>, metrics |-> NoMetrics]

MetricsIdle ==
  /\ rawOutput = <<>>
  /\ mlines = <<>>
  /\ mIdx = 0
  /\ result = NoResult
  /\ mpc = "idle"

\* Lines 141-147: build the result record, split the text.
StructBegin ==
  /\ mpc = "begin"
  /\ result' = [response |-> parseLiteRTOutput(rawOutput), metrics |-> NoMetrics]
  /\ mlines' = SplitOn(rawOutput, NL)
  /\ mIdx' = 0
  /\ mpc' = "loop"
  /\ UNCHANGED rawOutput
  /\ UNCHANGED <<parserVars, synthVars, serverVars>>

\* Lines 149-173: one iteration of the loop over the lines.
StructLine ==
  /\ mpc = "loop"
  /\ mIdx < Len(mlines)
  /\ result' = [result EXCEPT !.metrics = MetricsLine(@, mlines[mIdx + 1])]
  /\ mIdx' = mIdx + 1
  /\ UNCHANGED <<rawOutput, mlines, mpc>>
  /\ UNCHANGED <<parserVars, synthVars, serverVars>>

\* Line 175: the loop is over, the record is returned.
StructReturn ==
  /\ mpc = "loop"
  /\ mIdx >= Len(mlines)
  /\ mpc' = "done"
  /\ UNCHANGED <<rawOutput, mlines, mIdx, result>>
  /\ UNCHANGED <<parserVars, synthVars, serverVars>>

\* -------------------------------------------------- the synthesizer's steps

\* The words an enumerated answer is built from; the empty word gives the
\* answers with a space at either end or two spaces in a row, and the empty
\* answer.
WordShapes == {<<"x">>, <<>>}

WordSeqs == UNION {[1..n -> WordShapes] : n \in 1..MaxWords}

SevenWords ==
  <<"a", SP, "b", SP, "c", SP, "d", SP, "e", SP, "f", SP, "g">>

TAB == "\t"

\* An answer of six words with a newline, two spaces in a row and a tab.
MixedSpaces ==
  <<"y", NL, "z", SP, SP, "x", TAB, "x", SP, "a", SP, "b", SP, "c">>

\* The enumerated answers, the answer of the documented example, an answer
\* of two lines, and an answer with mixed white space.
SynthInputs ==
  {JoinWith(ws, SP) : ws \in WordSeqs}
    \cup {SevenWords, <<"y", NL, "z", SP, "x">>, MixedSpaces}

SynthIdle ==
  /\ fullResponse = <<>>
  /\ words = <<>>
  /\ wordIdx = 0
  /\ chunks = <<>>
  /\ spc = "idle"

\* Lines 145-148: split the answer, start the loop.
SynthBegin ==
  /\ spc = "begin"
  /\ words' = Words(fullResponse)
  /\ wordIdx' = 0
  /\ spc' = "loop"
  /\ UNCHANGED <<fullResponse, chunks>>
  /\ UNCHANGED <<parserVars, metricsVars, serverVars>>

\* Lines 148-153: the loop test holds, the iteration yields its chunk and
\* sets the timer.
SynthYield ==
  /\ spc = "loop"
  /\ wordIdx < Len(words)
  /\ chunks' = Append(chunks, ChunkAt(words, wordIdx))
  /\ spc' = "sleep"
  /\ UNCHANGED <<fullResponse, words, wordIdx>>
  /\ UNCHANGED <<parserVars, metricsVars, serverVars>>

\* Lines 148, 153: the timer fires, the loop variable advances.
SynthTimer ==
  /\ spc = "sleep"
  /\ wordIdx' = wordIdx + chunkSize
  /\ spc' = "loop"
  /\ UNCHANGED <<fullResponse, words, chunks>>
  /\ UNCHANGED <<parserVars, metricsVars, serverVars>>

\* Line 148: the loop test fails, the generator returns.
SynthReturn ==
  /\ spc = "loop"
  /\ wordIdx >= Len(words)
  /\ spc' = "done"
  /\ UNCHANGED <<fullResponse, words, wordIdx, chunks>>
  /\ UNCHANGED <<parserVars, metricsVars, serverVars>>

\* ---------------------------------------------------------------- the server

\* Largest number of requests the server receives.
MaxReq == 1

\* Largest number of data events delivered, over all processes.
MaxData == 2

Reqs == 1..MaxReq

NoReq == [endpoint |-> "none", auth |-> FALSE, messages |-> FALSE, stream |-> FALSE,
          test |-> FALSE]

NoRes == [status |-> 0, ended |-> FALSE]

\* A route handler: not called (none), suspended at await runLiteRT(...)
\* (await), suspended in streamResponse at the timer (sleep) with the
\* generator's locals words and i, returned, or left by an exception thrown
\* in its catch block (threw).
NoHandler == [pc |-> "none", i |-> 0, words |-> <<>>]

Awaiting == [pc |-> "await", i |-> 0, words |-> <<>>]

Returned == [pc |-> "returned", i |-> 0, words |-> <<>>]

Threw == [pc |-> "threw", i |-> 0, words |-> <<>>]

\* The exit codes a close event delivers.
ExitCodes == {0, 1}

\* What a stdout data event may carry.
StdoutChunks ==
  { <<"Response:", SP, "a">>,
    <<"I0000", SP, "x", NL>> }

\* What a stderr data event may carry.
StderrChunks ==
  { <<"b", NL>>,
    <<"Check failure", SP, "x", NL>>,
    <<"F0000", SP, "y", NL>> }

GREETING == <<"Hello!", SP, "How", SP, "can", SP, "I", SP, "help", SP, "you", SP, "today?">>

UNKNOWN_FATAL == <<"Unknown", SP, "fatal", SP, "error">>

\* err.message of the 'error' event.
SpawnErrorText == <<"spawn", SP, "ENOENT">>

\* A promise: not created, pending, or settled with an outcome.  The outcome's
\* tag is the message template of the rejection (or Success for a resolution),
\* text the string it carries and code the exit code in the message.
NoPromise == [state |-> "none", tag |-> "None", text |-> <<>>, code |-> 0]

Pending == [state |-> "pending", tag |-> "None", text |-> <<>>, code |-> 0]

Success(answer) == [state |-> "settled", tag |-> "Success", text |-> answer, code |-> 0]

FatalError(line) == [state |-> "settled", tag |-> "FatalError", text |-> line, code |-> 0]

NonFatalError(c, stderrText) ==
  [state |-> "settled", tag |-> "NonFatalError", text |-> stderrText, code |-> c]

StartupError(msg) == [state |-> "settled", tag |-> "StartupError", text |-> msg, code |-> 0]

\* A settle that lets a later resolve or reject replace the outcome.
SettleOverwrite(p, outcome) == IF p.state = "none" THEN p ELSE outcome

\* resolve(v) and reject(e) of a promise: the first call settles it, later
\* calls do nothing.
Settle(p, outcome) == IF p.state = "pending" THEN outcome ELSE p

\* errorLines.find(line => line.includes('F0000')) || 'Unknown fatal error'
FindFatalLine(ls) ==
  LET hits == {i \in 1..Len(ls) : Includes(ls[i], <<"F0000">>)}
  IN  IF hits = {} THEN UNKNOWN_FATAL
      ELSE ls[CHOOSE i \in hits : \A j \in hits : i <= j]

\* IsFatal testing only the fatal log prefix.
IsFatalPrefixOnly(stderrText) == Includes(stderrText, <<"F0000">>)

\* The test that chooses the fatal rejection.
IsFatal(stderrText) ==
  Includes(stderrText, <<"Check failure">>) \/ Includes(stderrText, <<"F0000">>)

\* !response || response === 'No response generated'
IsNoResponse(r) == r = <<>> \/ r = SENTINEL

\* ChooseAnswer without the test for the sentinel.
ChooseAnswerNoSentinelTest(out, err) ==
  IF parseLiteRTOutput(out) = <<>>
  THEN IF parseLiteRTOutput(err) # <<>> THEN parseLiteRTOutput(err) ELSE GREETING
  ELSE parseLiteRTOutput(out)

\* The value the close handler resolves with when the exit code is 0.
ChooseAnswer(out, err) ==
  LET response       == parseLiteRTOutput(out)
      stderrResponse == parseLiteRTOutput(err)
  IN  IF IsNoResponse(response)
      THEN IF ~IsNoResponse(stderrResponse) THEN stderrResponse ELSE GREETING
      ELSE response

\* CloseOutcome resolving with the answer of stdout whenever there is one,
\* before it looks at the exit code.
CloseOutcomeAnswerFirst(c, out, err) ==
  IF ~IsNoResponse(parseLiteRTOutput(out)) THEN Success(parseLiteRTOutput(out))
  ELSE IF c # 0
  THEN IF IsFatal(err)
       THEN FatalError(FindFatalLine(SplitOn(err, NL)))
       ELSE NonFatalError(c, err)
  ELSE Success(ChooseAnswer(out, err))

\* What the close handler settles the promise with.
CloseOutcome(c, out, err) ==
  IF c # 0
  THEN IF IsFatal(err)
       THEN FatalError(FindFatalLine(SplitOn(err, NL)))
       ELSE NonFatalError(c, err)
  ELSE Success(ChooseAnswer(out, err))

\* authenticateAPIKey: whether the middleware calls next().
AuthPasses(q) == q.auth

\* runLiteRT up to its return: spawn the process, create the pending promise.
RunLiteRT(r) ==
  /\ proc' = [proc EXCEPT ![r] = "running"]
  /\ spawns' = [spawns EXCEPT ![r] = @ + 1]
  /\ promise' = [promise EXCEPT ![r] = Pending]
  /\ output' = [output EXCEPT ![r] = <<>>]
  /\ error' = [error EXCEPT ![r] = <<>>]

\* POST /v1/chat/completions up to its first await.
ChatRequest(r) ==
  /\ req[r] = NoReq
  /\ \E a \in BOOLEAN, m \in BOOLEAN, st \in BOOLEAN :
       LET q == [endpoint |-> "chat", auth |-> a, messages |-> m, stream |-> st,
                 test |-> FALSE]
       IN  /\ req' = [req EXCEPT ![r] = q]
           /\ IF ~AuthPasses(q)
              THEN /\ res' = [res EXCEPT ![r] = [status |-> 401, ended |-> TRUE]]
                   /\ UNCHANGED <<proc, spawns, promise, output, error, handler>>
              ELSE IF ~m
              THEN /\ res' = [res EXCEPT ![r] = [status |-> 400, ended |-> TRUE]]
                   /\ handler' = [handler EXCEPT ![r] = Returned]
                   /\ UNCHANGED <<proc, spawns, promise, output, error>>
              ELSE /\ res' = [res EXCEPT ![r] = IF st THEN [status |-> 200, ended |-> FALSE]
                                                ELSE @]
                   /\ handler' = [handler EXCEPT ![r] = Awaiting]
                   /\ RunLiteRT(r)
  /\ UNCHANGED <<exitCode, dataEvents, sse, client>>
  /\ UNCHANGED <<parserVars, metricsVars, synthVars>>

\* GET /health up to its first await (no authentication middleware).
HealthRequest(r) ==
  /\ req[r] = NoReq
  /\ \E a \in BOOLEAN, t \in BOOLEAN :
       /\ req' = [req EXCEPT ![r] = [endpoint |-> "health", auth |-> a, messages |-> FALSE,
                                     stream |-> FALSE, test |-> t]]
       /\ IF t
          THEN /\ RunLiteRT(r)
               /\ handler' = [handler EXCEPT ![r] = Awaiting]
               /\ UNCHANGED res
          ELSE /\ res' = [res EXCEPT ![r] = [status |-> 200, ended |-> TRUE]]
               /\ handler' = [handler EXCEPT ![r] = Returned]
               /\ UNCHANGED <<proc, spawns, promise, output, error>>
  /\ UNCHANGED <<exitCode, dataEvents, sse, client>>
  /\ UNCHANGED <<parserVars, metricsVars, synthVars>>

\* GET /v1/models.
ModelsRequest(r) ==
  /\ req[r] = NoReq
  /\ \E a \in BOOLEAN :
       LET q == [endpoint |-> "models", auth |-> a, messages |-> FALSE, stream |-> FALSE,
                 test |-> FALSE]
       IN  /\ req' = [req EXCEPT ![r] = q]
           /\ res' = [res EXCEPT ![r] = [status |-> IF AuthPasses(q) THEN 200 ELSE 401,
                                         ended |-> TRUE]]
           /\ handler' = [handler EXCEPT ![r] = IF AuthPasses(q) THEN Returned ELSE @]
  /\ UNCHANGED <<proc, spawns, promise, output, error, exitCode, dataEvents, sse, client>>
  /\ UNCHANGED <<parserVars, metricsVars, synthVars>>

\* The events of a streaming response: a content chunk, the terminal chunk
\* with an empty delta, and the termination marker.  content holds the delta's
\* content when it has one.
ContentEvent(chunk) == [data |-> "chunk", content |-> <<chunk>>, finish_reason |-> "null"]

StopEvent == [data |-> "chunk", content |-> <<>>, finish_reason |-> "stop"]

DoneEvent == [data |-> "[DONE]", content |-> <<>>, finish_reason |-> "none"]

\* The writes after the for-await loop.
FinalEvents == <<StopEvent, DoneEvent>>

\* The non-streaming chat handler after its await: the completion with
\* status 200, or the catch block's status 500.
ChatJsonResume(r, o) ==
  /\ res' = [res EXCEPT ![r] = [status |-> IF o.tag = "Success" THEN 200 ELSE 500,
                                ended |-> TRUE]]
  /\ handler' = [handler EXCEPT ![r] = Returned]
  /\ UNCHANGED sse

\* The streaming chat handler after streamResponse's await.  On a resolution
\* the generator yields its first chunk, the loop body writes it and the
\* generator sets its timer.  On a rejection the catch block runs after
\* writeHead(200, ...): res.status(500).json(...) throws because the header is
\* already made, nothing is written and the response is not ended.
ChatStreamResume(r, o) ==
  IF o.tag = "Success"
  THEN /\ sse' = [sse EXCEPT ![r] = Append(@, ContentEvent(ChunkAt(Words(o.text), 0)))]
       /\ handler' = [handler EXCEPT ![r] = [pc |-> "sleep", i |-> 0, words |-> Words(o.text)]]
       /\ UNCHANGED res
  ELSE /\ handler' = [handler EXCEPT ![r] = Threw]
       /\ UNCHANGED <<res, sse>>

\* The health handler after its await: the test's result is recorded in the
\* body, the status is 200 either way.
HealthResume(r, o) ==
  /\ res' = [res EXCEPT ![r] = [status |-> 200, ended |-> TRUE]]
  /\ handler' = [handler EXCEPT ![r] = Returned]
  /\ UNCHANGED sse

\* The continuation of the handler that awaits the promise, run when the
\* promise goes from pending (p) to settled (o); no other callback runs
\* between the settling and the continuation.
Resume(r, p, o) ==
  IF p.state = "pending" /\ o.state = "settled" /\ handler[r].pc = "await"
  THEN IF req[r].endpoint = "health" THEN HealthResume(r, o)
       ELSE IF req[r].stream THEN ChatStreamResume(r, o)
       ELSE ChatJsonResume(r, o)
  ELSE UNCHANGED <<res, sse, handler>>

\* A stdout handler that appends to one buffer shared by every invocation.
StdoutDataShared(r) ==
  /\ proc[r] = "running"
  /\ dataEvents < MaxData
  /\ \E d \in StdoutChunks :
       output' = [q \in DOMAIN output |-> IF proc[q] = "running" THEN output[q] \o d
                                          ELSE output[q]]
  /\ dataEvents' = dataEvents + 1
  /\ UNCHANGED <<req, res, proc, error, exitCode, promise, spawns, handler, sse, client>>
  /\ UNCHANGED <<parserVars, metricsVars, synthVars>>

\* process.stdout.on('data')
StdoutData(r) ==
  /\ proc[r] = "running"
  /\ dataEvents < MaxData
  /\ \E d \in StdoutChunks : output' = [output EXCEPT ![r] = @ \o d]
  /\ dataEvents' = dataEvents + 1
  /\ UNCHANGED <<req, res, proc, error, exitCode, promise, spawns, handler, sse, client>>
  /\ UNCHANGED <<parserVars, metricsVars, synthVars>>

\* A stderr handler that rejects at once when the text has a fatal signature.
StderrDataRejectEarly(r) ==
  /\ proc[r] = "running"
  /\ dataEvents < MaxData
  /\ \E d \in StderrChunks :
       /\ error' = [error EXCEPT ![r] = @ \o d]
       /\ promise' = [promise EXCEPT ![r] =
            IF IsFatal(error'[r]) THEN Settle(@, FatalError(FindFatalLine(SplitOn(error'[r], NL))))
            ELSE @]
  /\ dataEvents' = dataEvents + 1
  /\ UNCHANGED <<req, res, proc, output, exitCode, spawns, handler, sse, client>>
  /\ UNCHANGED <<parserVars, metricsVars, synthVars>>

\* process.stderr.on('data')
StderrData(r) ==
  /\ proc[r] = "running"
  /\ dataEvents < MaxData
  /\ \E d \in StderrChunks : error' = [error EXCEPT ![r] = @ \o d]
  /\ dataEvents' = dataEvents + 1
  /\ UNCHANGED <<req, res, proc, output, exitCode, promise, spawns, handler, sse, client>>
  /\ UNCHANGED <<parserVars, metricsVars, synthVars>>

\* process.on('error'): the process could not be started.  Nothing in the
\* source orders this event against the data events.
ProcError(r) ==
  /\ proc[r] = "running"
  /\ proc' = [proc EXCEPT ![r] = "failed"]
  /\ promise' = [promise EXCEPT ![r] = Settle(@, StartupError(SpawnErrorText))]
  /\ Resume(r, promise[r], promise'[r])
  /\ UNCHANGED <<req, output, error, exitCode, spawns, dataEvents, client>>
  /\ UNCHANGED <<parserVars, metricsVars, synthVars>>

\* A close handler that starts the process again after a non-zero exit.
ProcCloseRespawn(r) ==
  /\ proc[r] \in {"running", "failed"}
  /\ \E c \in ExitCodes :
       /\ exitCode' = [exitCode EXCEPT ![r] = c]
       /\ promise' = [promise EXCEPT ![r] = Settle(@, CloseOutcome(c, output[r], error[r]))]
       /\ spawns' = [spawns EXCEPT ![r] = IF c # 0 THEN @ + 1 ELSE @]
       /\ proc' = [proc EXCEPT ![r] = IF c # 0 THEN "running"
                                      ELSE IF @ = "failed" THEN "failedClosed" ELSE "closed"]
  /\ Resume(r, promise[r], promise'[r])
  /\ UNCHANGED <<req, output, error, dataEvents, client>>
  /\ UNCHANGED <<parserVars, metricsVars, synthVars>>

\* process.on('close'): the process has ended and its streams are closed.
ProcClose(r) ==
  /\ proc[r] \in {"running", "failed"}
  /\ \E c \in ExitCodes :
       /\ exitCode' = [exitCode EXCEPT ![r] = c]
       /\ promise' = [promise EXCEPT ![r] = Settle(@, CloseOutcome(c, output[r], error[r]))]
  /\ proc' = [proc EXCEPT ![r] = IF @ = "failed" THEN "failedClosed" ELSE "closed"]
  /\ Resume(r, promise[r], promise'[r])
  /\ UNCHANGED <<req, output, error, spawns, dataEvents, client>>
  /\ UNCHANGED <<parserVars, metricsVars, synthVars>>

\* TimerFire stopping the stream once the client is gone.
TimerFireUnlessGone(r) ==
  /\ handler[r].pc = "sleep"
  /\ client[r] = "open"
  /\ LET ws == handler[r].words
         j  == handler[r].i + chunkSize
     IN  IF j < Len(ws)
         THEN /\ sse' = [sse EXCEPT ![r] = Append(@, ContentEvent(ChunkAt(ws, j)))]
              /\ handler' = [handler EXCEPT ![r] = [@ EXCEPT !.i = j]]
              /\ UNCHANGED res
         ELSE /\ sse' = [sse EXCEPT ![r] = @ \o FinalEvents]
              /\ handler' = [handler EXCEPT ![r] = Returned]
              /\ res' = [res EXCEPT ![r] = [@ EXCEPT !.ended = TRUE]]
  /\ UNCHANGED <<req, proc, output, error, exitCode, promise, spawns, dataEvents, client>>
  /\ UNCHANGED <<parserVars, metricsVars, synthVars>>

\* streamResponse's timer fires: i advances; either the loop yields the next
\* chunk and the handler writes it, or the loop is over and the handler
\* writes the terminal chunk and the marker and ends the response.
TimerFire(r) ==
  /\ handler[r].pc = "sleep"
  /\ LET ws == handler[r].words
         j  == handler[r].i + chunkSize
     IN  IF j < Len(ws)
         THEN /\ sse' = [sse EXCEPT ![r] = Append(@, ContentEvent(ChunkAt(ws, j)))]
              /\ handler' = [handler EXCEPT ![r] = [@ EXCEPT !.i = j]]
              /\ UNCHANGED res
         ELSE /\ sse' = [sse EXCEPT ![r] = @ \o FinalEvents]
              /\ handler' = [handler EXCEPT ![r] = Returned]
              /\ res' = [res EXCEPT ![r] = [@ EXCEPT !.ended = TRUE]]
  /\ UNCHANGED <<req, proc, output, error, exitCode, promise, spawns, dataEvents, client>>
  /\ UNCHANGED <<parserVars, metricsVars, synthVars>>

\* The client of a streaming request closes its connection while the answer
\* is being streamed.  The handler registers no listener for it.
ClientAbandon(r) ==
  /\ req[r].stream
  /\ handler[r].pc = "sleep"
  /\ client[r] = "open"
  /\ client' = [client EXCEPT ![r] = "gone"]
  /\ UNCHANGED <<req, res, proc, output, error, exitCode, promise, spawns, dataEvents,
                 handler, sse>>
  /\ UNCHANGED <<parserVars, metricsVars, synthVars>>

\* ------------------------------------------------------- the specifications

ServerInit ==
  /\ req = [r \in Reqs |-> NoReq]
  /\ res = [r \in Reqs |-> NoRes]
  /\ proc = [r \in Reqs |-> "none"]
  /\ output = [r \in Reqs |-> <<>>]
  /\ error = [r \in Reqs |-> <<>>]
  /\ exitCode = [r \in Reqs |-> 0]
  /\ promise = [r \in Reqs |-> NoPromise]
  /\ spawns = [r \in Reqs |-> 0]
  /\ dataEvents = 0
  /\ handler = [r \in Reqs |-> NoHandler]
  /\ sse = [r \in Reqs |-> <<>>]
  /\ client = [r \in Reqs |-> "open"]

\* The server: requests arrive, their processes write, fail to start and end.
Init ==
  /\ ParserIdle
  /\ MetricsIdle
  /\ SynthIdle
  /\ ServerInit

Next ==
  \E r \in Reqs :
    \/ ChatRequest(r)
    \/ HealthRequest(r)
    \/ ModelsRequest(r)
    \/ StdoutData(r)
    \/ StderrData(r)
    \/ ProcError(r)
    \/ ProcClose(r)
    \/ TimerFire(r)
    \/ ClientAbandon(r)

Spec == Init /\ [][Next]_vars

\* The server with its timers: a timer that is set fires.
FairSpec == Spec /\ \A r \in Reqs : WF_vars(TimerFire(r))

\* The requests of the concurrent runs: one more than the server's bound, so
\* two at least.
ConcReqs == 1..(MaxReq + 1)

\* The server after it accepted a non-streaming chat request from every
\* client of ConcReqs: every process is running, every handler awaits.
ConcInit ==
  /\ req = [r \in ConcReqs |-> [endpoint |-> "chat", auth |-> TRUE, messages |-> TRUE,
                                 stream |-> FALSE, test |-> FALSE]]
  /\ res = [r \in ConcReqs |-> NoRes]
  /\ proc = [r \in ConcReqs |-> "running"]
  /\ output = [r \in ConcReqs |-> <<>>]
  /\ error = [r \in ConcReqs |-> <<>>]
  /\ exitCode = [r \in ConcReqs |-> 0]
  /\ promise = [r \in ConcReqs |-> Pending]
  /\ spawns = [r \in ConcReqs |-> 1]
  /\ dataEvents = 0
  /\ handler = [r \in ConcReqs |-> Awaiting]
  /\ sse = [r \in ConcReqs |-> <<>>]
  /\ client = [r \in ConcReqs |-> "open"]
  /\ ParserIdle
  /\ MetricsIdle
  /\ SynthIdle

\* The events of the running processes, in any order.
ConcNext ==
  \E r \in ConcReqs :
    \/ StdoutData(r)
    \/ StderrData(r)
    \/ ProcError(r)
    \/ ProcClose(r)

ConcSpec == ConcInit /\ [][ConcNext]_vars

\* One call of parseLiteRTOutput on each enumerated input.
ExtractInit ==
  /\ input \in ParserInputs
  /\ lines = <<>>
  /\ startIndex = 0
  /\ idx = 0
  /\ scan = ScanInit
  /\ ppc = "begin"
  /\ parsed = <<>>
  /\ MetricsIdle
  /\ SynthIdle
  /\ ServerInit

ExtractNext ==
  \/ ParseBegin
  \/ ScanStep
  \/ FallbackStep
  \/ CleanupStep

ExtractSpec == ExtractInit /\ [][ExtractNext]_vars

\* One run of streamResponse's loop on each enumerated answer.
SynthInit ==
  /\ fullResponse \in SynthInputs
  /\ words = <<>>
  /\ wordIdx = 0
  /\ chunks = <<>>
  /\ spc = "begin"
  /\ ParserIdle
  /\ MetricsIdle
  /\ ServerInit

SynthNext ==
  \/ SynthBegin
  \/ SynthYield
  \/ SynthTimer
  \/ SynthReturn

SynthSpec == SynthInit /\ [][SynthNext]_vars

\* One call of parseStructuredOutput on each enumerated raw text.
MetricsInit ==
  /\ rawOutput \in MetricsInputs
  /\ mlines = <<>>
  /\ mIdx = 0
  /\ result = NoResult
  /\ mpc = "begin"
  /\ ParserIdle
  /\ SynthIdle
  /\ ServerInit

MetricsNext ==
  \/ StructBegin
  \/ StructLine
  \/ StructReturn

MetricsSpec == MetricsInit /\ [][MetricsNext]_vars

\* ------------------------------------------------------ claims on the parser

\* The machine's steps compute the function parseLiteRTOutput.
StepsComputeParse == ppc = "done" => parsed = parseLiteRTOutput(input)

\* Whether a line is a log line as the log-skip loop tests it.
IsLogLine(line) ==
  MatchesLogPrefix(line) \/ Includes(line, <<"INFO:">>) \/ Includes(line, <<"WARNING:">>)

IsBlank(line) == \A k \in 1..Len(line) : IsWs(line[k])

\* C1: the call is never stuck before it returns (in every phase but the last
\* a step is enabled), and what it returns is a non-empty string with no white
\* space at either end; when the buffer holds nothing but white space the
\* returned string is the sentinel.
C1_ExtractTotal ==
  /\ ppc \in {"begin", "scan", "fallback", "cleanup", "done"}
  /\ ppc = "scan" => idx < Len(lines)
  /\ ppc = "done" =>
       /\ parsed # <<>>
       /\ ~IsWs(parsed[1])
       /\ ~IsWs(parsed[Len(parsed)])
       /\ IsBlank(scan.response) => parsed = SENTINEL

\* C1's case: the empty text is parsed to the sentinel.
C1_Witness == ppc = "done" /\ input = <<>> /\ parsed = SENTINEL

\* Lines k..e (1-based) are a marker block: line k is exactly a response
\* marker and the first line from the scan start on with one, line e is the
\* first line after k with an end marker, and the lines between are one or
\* more non-blank lines.
MarkerBlock(k, e) ==
  /\ k > startIndex
  /\ e > k + 1
  /\ e <= Len(lines)
  /\ \E m \in 1..Len(responseMarkers) : lines[k] = responseMarkers[m]
  /\ \A j \in (startIndex + 1)..(k - 1) : ~HasResponseMarker(lines[j])
  /\ HasEndMarker(lines[e])
  /\ \A j \in (k + 1)..(e - 1) :
       ~IsBlank(lines[j]) /\ ~HasEndMarker(lines[j]) /\ ~HasResponseMarker(lines[j])

\* C2: a line that is exactly a response marker, at any position, then
\* non-blank lines, then an end-marker line: the answer is exactly the lines
\* between, joined with newlines and trimmed.
C2_MarkerBlockExact ==
  ppc = "done" =>
    \A k \in 1..Len(lines), e \in 1..Len(lines) :
      MarkerBlock(k, e) => parsed = Trim(JoinWith(SubSeq(lines, k + 1, e - 1), NL))

\* Line k (1-based) is the first line with a response marker, carries text
\* after it and no end marker, and the next line has an end marker.
MarkerWithText(k) ==
  /\ k > startIndex
  /\ k < Len(lines)
  /\ HasResponseMarker(lines[k])
  /\ ~HasEndMarker(lines[k])
  /\ AfterMarker(lines[k], FirstResponseMarker(lines[k])) # <<>>
  /\ \A j \in (startIndex + 1)..(k - 1) : ~HasResponseMarker(lines[j])
  /\ HasEndMarker(lines[k + 1])

\* C3: a marker with text on its line and an end marker on the next line: the
\* answer is exactly the trimmed text after the marker; for the documented
\* scenario it is "Paris is the capital of France.".
C3_SameLineAnswer ==
  ppc = "done" =>
    /\ \A k \in 1..Len(lines) :
         MarkerWithText(k) => parsed = AfterMarker(lines[k], FirstResponseMarker(lines[k]))
    /\ input = ScenarioStdout => parsed = ScenarioAnswer

\* C4: when every line is a log line or blank, the log-skip loop finds no
\* body and the sentinel is returned.
C4_LogOnlySentinel ==
  (ppc = "done" /\ \A k \in 1..Len(lines) : IsLogLine(lines[k]) \/ IsBlank(lines[k]))
    => parsed = SENTINEL

\* Whether a returned text has no response marker, no end marker and no log line.
CleanText(t) ==
  /\ \A m \in 1..Len(responseMarkers) : ~Includes(t, responseMarkers[m])
  /\ \A m \in 1..Len(endMarkers) : ~Includes(t, endMarkers[m])
  /\ \A k \in 1..Len(SplitOn(t, NL)) : ~IsLogLine(SplitOn(t, NL)[k])

\* C5: parsing a returned text that has no marker and no log line returns it
\* unchanged.
C5_Idempotent ==
  (ppc = "done" /\ CleanText(parsed)) => parseLiteRTOutput(parsed) = parsed

\* C5's case: a returned answer of several lines, with no marker and no log
\* line, taken from a marked response.
C5_Witness ==
  /\ ppc = "done"
  /\ CleanText(parsed)
  /\ scan.foundResponseMarker
  /\ Len(SplitOn(parsed, NL)) >= 2

IsPrefix(s, t) == Len(s) <= Len(t) /\ SubSeq(t, 1, Len(s)) = s

\* A non-blank line with no response marker, already processed by the primary
\* scan, stands in the buffer.
LineAppended ==
  \E j \in (startIndex + 1)..idx :
    ~IsBlank(lines[j]) /\ ~HasResponseMarker(lines[j]) /\ Includes(scan.response, lines[j])

\* C19: during the primary scan, once a non-empty line has been appended to
\* the buffer, every later iteration leaves the previous buffer a prefix of
\* the new one, also when the line it processes holds a response marker.
C19_BufferMonotone ==
  [][(ppc = "scan" /\ LineAppended) => IsPrefix(scan.response, scan'.response)]_vars

\* The first line is exactly a response marker and is followed by a body with
\* no marker of either kind and at least one non-blank line.
MarkerThenBody ==
  /\ Len(lines) >= 2
  /\ \E m \in 1..Len(responseMarkers) : lines[1] = responseMarkers[m]
  /\ \A j \in 2..Len(lines) : ~HasEndMarker(lines[j]) /\ ~HasResponseMarker(lines[j])
  /\ \E j \in 2..Len(lines) : ~IsBlank(lines[j])

\* C20: the blank lines between the marker and the first content line are
\* dropped and those inside the body are kept as empty lines: the answer is
\* the body's lines joined with newlines, white space at both ends removed.
C20_BlankLinesKept ==
  (ppc = "done" /\ MarkerThenBody)
    => parsed = Trim(JoinWith(SubSeq(lines, 2, Len(lines)), NL))

\* C21: in the primary scan a line with an end marker does not stop the scan
\* while inResponse is false, and stops it when inResponse is true: the
\* buffer is left as it was, also when the line has a response marker, no
\* later step changes it, and the answer is the answer of the text cut
\* before that line.
C21_EndMarkerOnlyInResponse ==
  /\ [][(ppc = "scan" /\ HasEndMarker(lines[idx + 1])) =>
          IF scan.inResponse
          THEN scan'.stopped /\ scan'.response = scan.response /\ ppc' = "fallback"
          ELSE ~scan'.stopped /\ idx' = idx + 1]_vars
  /\ [][scan.stopped => scan'.response = scan.response /\ scan'.stopped]_vars
  /\ []((ppc = "done" /\ scan.stopped) =>
          parsed = parseLiteRTOutput(JoinWith(SubSeq(lines, 1, idx), NL)))

\* C21's case: a line with an end marker came before the response marker and
\* did not stop the scan; the scan stopped later at a line that has an end
\* marker and a response marker, with a line after it.
C21_Witness ==
  /\ ppc = "done"
  /\ scan.stopped
  /\ idx + 1 < Len(lines)
  /\ HasEndMarker(lines[idx + 1]) /\ HasResponseMarker(lines[idx + 1])
  /\ \E j \in (startIndex + 1)..idx :
       /\ HasEndMarker(lines[j])
       /\ \A k \in (startIndex + 1)..j : ~HasResponseMarker(lines[k])

\* Some line from the scan start on has a response marker.
MarkerFromStart == \E j \in (startIndex + 1)..Len(lines) : HasResponseMarker(lines[j])

\* The 1-based index of the first line from the scan start on that has an end
\* marker; one past the last line when there is none.
FirstEndFromStart ==
  LET es == {j \in (startIndex + 1)..Len(lines) : HasEndMarker(lines[j])}
  IN  IF es = {} THEN Len(lines) + 1 ELSE CHOOSE j \in es : \A k \in es : j <= k

\* The non-blank lines from the scan start up to the first end-marker line,
\* as they are, joined with newlines.
FallbackText ==
  JoinWith(SelectSeq(SubSeq(lines, startIndex + 1, FirstEndFromStart - 1),
                     LAMBDA l : ~IsBlank(l)), NL)

\* C22: the fallback runs exactly when no line from the scan start on has a
\* response marker, and then the buffer is the non-blank lines from the scan
\* start up to the first end-marker line or the end, in order and as they
\* are, joined with newlines; when a marker was found the fallback step
\* leaves the buffer of the primary scan as it is.  The returned answer is
\* the clean-up of that buffer.
C22_FallbackExact ==
  /\ [](ppc = "fallback" => (scan.foundResponseMarker <=> MarkerFromStart))
  /\ [][ppc = "fallback" =>
          scan'.response = IF MarkerFromStart THEN scan.response ELSE FallbackText]_vars
  /\ []((ppc = "done" /\ ~MarkerFromStart) => parsed = Cleanup(FallbackText))

\* C22's case: no response marker; two body lines and a blank line are
\* followed by an end-marker line.
C22_Witness ==
  /\ ppc = "done"
  /\ ~MarkerFromStart
  /\ FirstEndFromStart <= Len(lines)
  /\ Len(SplitOn(scan.response, NL)) = 2
  /\ \E j \in (startIndex + 1)..(FirstEndFromStart - 1) : lines[j] = <<>>
  /\ scan.response = FallbackText

\* A line that matches a log-line pattern stands in the returned answer.
LogLineReturned == \E k \in 1..Len(SplitOn(parsed, NL)) : IsLogLine(SplitOn(parsed, NL)[k])

\* C23: no line of the returned answer matches a log-line pattern, also when
\* the text has log lines after its first body line.
C23_NoLogLineReturned ==
  (ppc = "done" /\ IsBodyLine(lines[startIndex + 1])) => ~LogLineReturned

\* ------------------------------------------ claims on the metrics extraction

\* The 1-based indices of the lines that match category c.
MatchingLines(c) == {k \in 1..Len(mlines) : MetricOf(mlines[k], c) # <<>>}

\* The number on line k for category c.
ValueOn(k, c) == parseFloat(MetricOf(mlines[k], c)[1])

\* C18 as stated: a category matched by several lines reports the number of
\* the first of them; a category that no line matches has no key in the
\* metrics record.
C18_FirstMatchWins ==
  mpc = "done" =>
    \A n \in 1..Len(MetricCategories) :
      LET c  == MetricCategories[n]
          ks == MatchingLines(c)
      IN  IF ks = {} THEN c.key \notin DOMAIN result.metrics
          ELSE /\ c.key \in DOMAIN result.metrics
               /\ result.metrics[c.key] = ValueOn(CHOOSE k \in ks : \A j \in ks : k <= j, c)

\* C18, amended: a category matched by several lines reports the number of
\* the last of them; a category that no line matches has no key in the
\* metrics record.
C18_LastMatchWins ==
  mpc = "done" =>
    \A n \in 1..Len(MetricCategories) :
      LET c  == MetricCategories[n]
          ks == MatchingLines(c)
      IN  IF ks = {} THEN c.key \notin DOMAIN result.metrics
          ELSE /\ c.key \in DOMAIN result.metrics
               /\ result.metrics[c.key] = ValueOn(CHOOSE k \in ks : \A j \in ks : k >= j, c)

\* C18's case: two lines match the Prefill pattern with different numbers,
\* the later one is reported, a Decode line reports zero and no line matches
\* the Peak memory pattern.
C18_Witness ==
  /\ mpc = "done"
  /\ \E j, k \in MatchingLines(MetricCategories[1]) :
       /\ j < k
       /\ ValueOn(j, MetricCategories[1]) # ValueOn(k, MetricCategories[1])
       /\ \A l \in MatchingLines(MetricCategories[1]) : l <= k
       /\ result.metrics["prefillTokensPerSec"] = ValueOn(k, MetricCategories[1])
  /\ "decodeTokensPerSec" \in DOMAIN result.metrics
  /\ result.metrics["decodeTokensPerSec"] = 0
  /\ "peakMemoryMB" \notin DOMAIN result.metrics

\* ------------------------------------------------- claims on the synthesizer

\* An answer of one or more non-empty words of one line, separated by single
\* spaces.
SingleSpaced(a) ==
  /\ \A k \in 1..Len(a) : a[k] # NL
  /\ \A k \in 1..Len(SplitOn(a, SP)) : SplitOn(a, SP)[k] # <<>>

CeilDiv(n, d) == (n + d - 1) \div d

\* C12: an answer of n >= 1 words separated by single spaces is yielded as
\* ceil(n/5) chunks in order; chunk k is words 5(k-1)+1 .. min(5k, n) joined
\* by one space, with one trailing space on every chunk but the last; the
\* answer "a b c d e f g" is yielded as "a b c d e " and "f g".
C12_ChunkWindows ==
  spc = "done" =>
    /\ SingleSpaced(fullResponse) =>
         LET ws == SplitOn(fullResponse, SP)
             n  == Len(ws)
             c  == CeilDiv(n, chunkSize)
         IN  /\ Len(chunks) = c
             /\ \A k \in 1..c :
                  chunks[k] =
                    JoinWith(SubSeq(ws, chunkSize * (k - 1) + 1, Min(chunkSize * k, n)), SP)
                      \o (IF k < c THEN <<SP>> ELSE <<>>)
    /\ fullResponse = SevenWords =>
         chunks = << <<"a", SP, "b", SP, "c", SP, "d", SP, "e", SP>>, <<"f", SP, "g">> >>

\* C12's case: an answer of eleven words has been yielded as three chunks,
\* the last of one word.
C12_Witness ==
  /\ spc = "done"
  /\ SingleSpaced(fullResponse)
  /\ Len(SplitOn(fullResponse, SP)) = 11
  /\ Len(chunks) = 3
  /\ chunks[3] = <<"x">>

RECURSIVE Concat(_)
Concat(ss) == IF ss = <<>> THEN <<>> ELSE Head(ss) \o Concat(Tail(ss))

\* C24: the chunks yielded so far, concatenated in order, are the beginning
\* of the answer, and once the generator has returned they are the answer
\* exactly, whatever white space it holds.
C24_StreamLossless ==
  /\ IsPrefix(Concat(chunks), fullResponse)
  /\ spc = "done" => Concat(chunks) = fullResponse

\* C24's case: the answer with a newline, two spaces in a row and a tab has
\* been yielded in two chunks.
C24_Witness ==
  /\ spc = "done"
  /\ fullResponse = MixedSpaces
  /\ Len(chunks) = 2
  /\ Concat(chunks) = MixedSpaces

\* ------------------------------------------------------ claims on the server

\* The process of request r started and has ended: its close event was
\* delivered and no error event before it.
Ended(r) == proc[r] = "closed"

\* The first line of a text that includes one of the signatures; <<>> when none.
FirstLineWithAny(t, sigs) ==
  LET ls   == SplitOn(t, NL)
      hits == {i \in 1..Len(ls) : \E g \in sigs : Includes(ls[i], g)}
  IN  IF hits = {} THEN <<>> ELSE ls[CHOOSE i \in hits : \A j \in hits : i <= j]

FatalSignatures == { <<"Check failure">>, <<"F0000">> }

HasFatalSignature(t) == \E g \in FatalSignatures : Includes(t, g)

\* C6: a process that ends with exit code 0 resolves the promise with the
\* parse of stdout unless that is empty or the sentinel, then with the parse
\* of stderr unless that is empty or the sentinel, then with the greeting; the
\* sentinel is never the answer.
C6_ExitZeroResolves ==
  \A r \in Reqs :
    (Ended(r) /\ exitCode[r] = 0) =>
      LET a == parseLiteRTOutput(output[r])
          b == parseLiteRTOutput(error[r])
      IN  /\ promise[r].state = "settled"
          /\ promise[r].tag = "Success"
          /\ promise[r].text = IF a # <<>> /\ a # SENTINEL THEN a
                               ELSE IF b # <<>> /\ b # SENTINEL THEN b
                               ELSE GREETING
          /\ promise[r].text # SENTINEL

\* C6's case: stdout holds text that parses to the sentinel and the answer is
\* taken from stderr.
C6_Witness ==
  \E r \in Reqs :
    /\ Ended(r)
    /\ exitCode[r] = 0
    /\ output[r] # <<>>
    /\ parseLiteRTOutput(output[r]) = SENTINEL
    /\ promise[r] = Success(<<"b">>)

\* C7 as claimed: a non-zero exit with a fatal signature in stderr rejects
\* with the first line of stderr that has a fatal signature.
C7_FirstSignatureLine ==
  \A r \in Reqs :
    (Ended(r) /\ exitCode[r] # 0 /\ HasFatalSignature(error[r])) =>
      promise[r] = FatalError(FirstLineWithAny(error[r], FatalSignatures))

\* C7 as amended: a non-zero exit with a fatal signature in stderr rejects
\* with the first line of stderr that includes "F0000", and with the text
\* "Unknown fatal error" when no line includes it.
C7_FatalPrefixLine ==
  \A r \in Reqs :
    (Ended(r) /\ exitCode[r] # 0 /\ HasFatalSignature(error[r])) =>
      promise[r] = FatalError(IF Includes(error[r], <<"F0000">>)
                              THEN FirstLineWithAny(error[r], { <<"F0000">> })
                              ELSE UNKNOWN_FATAL)

\* C7's case: stderr has a check-failure line and no fatal log prefix.
C7_Witness ==
  \E r \in Reqs :
    /\ Ended(r)
    /\ exitCode[r] # 0
    /\ Includes(error[r], <<"Check failure">>)
    /\ ~Includes(error[r], <<"F0000">>)
    /\ promise[r] = FatalError(UNKNOWN_FATAL)

\* C8: after a close with a non-zero exit code the promise is never resolved;
\* a process that started is rejected as fatal or non-fatal, and without a
\* fatal signature in stderr as non-fatal with the exit code and all of stderr.
C8_NonZeroRejects ==
  \A r \in Reqs :
    /\ (proc[r] \in {"closed", "failedClosed"} /\ exitCode[r] # 0) =>
         (promise[r].state = "settled" /\ promise[r].tag # "Success")
    /\ (Ended(r) /\ exitCode[r] # 0) =>
         /\ promise[r].tag \in {"FatalError", "NonFatalError"}
         /\ ~HasFatalSignature(error[r]) => promise[r] = NonFatalError(exitCode[r], error[r])

\* C8's case: stdout holds a well-formed marked response, the exit code is
\* not 0, and the rejection carries the code and stderr.
C8_Witness ==
  \E r \in Reqs :
    /\ Ended(r)
    /\ exitCode[r] # 0
    /\ parseLiteRTOutput(output[r]) = <<"a">>
    /\ error[r] # <<>>
    /\ promise[r] = NonFatalError(exitCode[r], error[r])

\* C9: once the error event has fired the promise is rejected with the
\* start-up error, whatever follows; and a settled promise never changes.
C9_SettledOnce ==
  /\ [](\A r \in Reqs :
          proc[r] \in {"failed", "failedClosed"} => promise[r] = StartupError(SpawnErrorText))
  /\ [][\A r \in Reqs : promise[r].state = "settled" => promise'[r] = promise[r]]_vars

\* C9's case: an error event, then a close event with exit code 0 for a
\* process whose stdout holds an answer.
C9_Witness ==
  \E r \in Reqs :
    /\ proc[r] = "failedClosed"
    /\ exitCode[r] = 0
    /\ parseLiteRTOutput(output[r]) = <<"a">>
    /\ promise[r].tag = "StartupError"

\* Whether the handler of request r called runLiteRT.
Invoked(r) ==
  \/ req[r].endpoint = "chat" /\ req[r].auth /\ req[r].messages
  \/ req[r].endpoint = "health" /\ req[r].test

\* C10: a request whose handler called runLiteRT has spawned exactly one
\* process, whatever the outcome, and any other request none.
C10_OneSpawn ==
  \A r \in Reqs :
    /\ spawns[r] = IF Invoked(r) THEN 1 ELSE 0
    /\ Invoked(r) <=> promise[r].state # "none"

\* C10's case: a non-zero exit rejected the promise and the process was
\* spawned once.
C10_Witness ==
  \E r \in Reqs :
    /\ Ended(r)
    /\ exitCode[r] # 0
    /\ promise[r].tag = "NonFatalError"
    /\ spawns[r] = 1

\* Request r is a chat request whose streaming response has been started.
Streaming(r) == req[r].endpoint = "chat" /\ req[r].stream /\ res[r].status = 200

Resolved(r) == promise[r].state = "settled" /\ promise[r].tag = "Success"

Rejected(r) == promise[r].state = "settled" /\ promise[r].tag # "Success"

\* C11: a chat request whose invocation has failed has a 5xx status, whether
\* it asked for a stream or not.
C11_FailureIs5xx ==
  \A r \in Reqs :
    (req[r].endpoint = "chat" /\ Rejected(r)) => res[r].status \in 500..599

\* The events a complete stream of the answer consists of: its chunks in
\* order, the terminal chunk, the marker.
StreamOf(answer) ==
  LET ws == SplitOn(answer, SP)
      c  == CeilDiv(Len(ws), chunkSize)
  IN  [k \in 1..c |-> ContentEvent(ChunkAt(ws, chunkSize * (k - 1)))]
        \o <<StopEvent, DoneEvent>>

\* The handler of request r is suspended at an await.
Suspended(r) == handler[r].pc \in {"await", "sleep"}

\* C14 as stated: what a streaming request has written is a prefix of the
\* answer's chunks in order, the terminal chunk and the marker, and once its
\* handler is no longer suspended the terminal chunk and the marker have been
\* written, whatever the invocation's outcome.
C14_StreamAlwaysTerminated ==
  \A r \in Reqs :
    Streaming(r) =>
      /\ Resolved(r) => IsPrefix(sse[r], StreamOf(promise[r].text))
      /\ ~Suspended(r) =>
           /\ Len(sse[r]) >= 2
           /\ SubSeq(sse[r], Len(sse[r]) - 1, Len(sse[r])) = <<StopEvent, DoneEvent>>

\* The chunks written so far for request r.
ChunksWritten(r) ==
  LET cs == SelectSeq(sse[r], LAMBDA e : e.content # <<>>)
  IN  [k \in 1..Len(cs) |-> cs[k].content[1]]

\* Every chunk of the answer, in order.
AllChunks(answer) ==
  LET ws == SplitOn(answer, SP)
  IN  [k \in 1..CeilDiv(Len(ws), chunkSize) |-> ChunkAt(ws, chunkSize * (k - 1))]

\* C15: once the invocation of a streaming request has resolved, every chunk
\* of the answer is eventually yielded and the generator returns, provided
\* the timer fires; no step takes back a chunk or leaves the loop early, the
\* client closing its connection included.
C15_SynthCompletes ==
  /\ \A r \in Reqs :
       (Streaming(r) /\ Resolved(r))
         ~> (handler[r].pc = "returned" /\ ChunksWritten(r) = AllChunks(promise[r].text))
  /\ [][\A r \in Reqs :
          handler[r].pc = "sleep" =>
            /\ handler'[r].pc \in {"sleep", "returned"}
            /\ IsPrefix(sse[r], sse'[r])
            /\ handler'[r].pc = "returned" => ChunksWritten(r)' = AllChunks(promise[r].text)]_vars

\* C15's case: the client went away while the answer was streamed, and
\* the two chunks of the answer were written all the same.
C15_Witness ==
  \E r \in Reqs :
    /\ client[r] = "gone"
    /\ handler[r].pc = "returned"
    /\ Len(ChunksWritten(r)) = 2
    /\ ChunksWritten(r) = AllChunks(promise[r].text)

\* C16: while the process runs the promise is pending, the handler waits
\* and nothing has been answered, however many data events have arrived; a
\* settled promise belongs to a process that has left running, and after a
\* close the promise is settled, resolved exactly when the exit code is 0.
\* No step of a running invocation is a timeout.
C16_ActsOnlyOnExit ==
  \A r \in Reqs :
    /\ proc[r] = "running" =>
         /\ promise[r] = Pending
         /\ handler[r].pc = "await"
         /\ ~res[r].ended
         /\ sse[r] = <<>>
    /\ promise[r].state = "settled" => proc[r] \in {"closed", "failed", "failedClosed"}
    /\ proc[r] = "closed" =>
         /\ promise[r].state = "settled"
         /\ promise[r].tag = "Success" <=> exitCode[r] = 0

\* C16's case: the health self-test's process has delivered every data event
\* and still runs; the invocation is pending and nothing has been answered.
C16_Witness ==
  \E r \in Reqs :
    /\ req[r].endpoint = "health"
    /\ req[r].test
    /\ proc[r] = "running"
    /\ dataEvents = MaxData
    /\ output[r] # <<>>
    /\ promise[r] = Pending
    /\ ~res[r].ended

\* The state of one invocation and of its request.
InvState(r) ==
  <<proc[r], output[r], error[r], exitCode[r], promise[r], spawns[r], res[r], handler[r]>>

\* C17: with several invocations running at once, a step changes the state
\* of one invocation only, and the outcome of each is the outcome of its own
\* captures and exit code, as if it ran alone.
C17_Independent ==
  /\ [](\A r \in DOMAIN req :
          /\ proc[r] = "closed" => promise[r] = CloseOutcome(exitCode[r], output[r], error[r])
          /\ proc[r] \in {"failed", "failedClosed"} => promise[r] = StartupError(SpawnErrorText))
  /\ [][\A r, q \in DOMAIN req :
          (r # q /\ InvState(r)' # InvState(r)) => InvState(q)' = InvState(q)]_vars

\* C17's case: two processes that ran at once have ended with different
\* captures, one invocation resolved and the other rejected.
C17_Witness ==
  \E r, q \in DOMAIN req :
    /\ r # q
    /\ proc[r] = "closed" /\ proc[q] = "closed"
    /\ output[r] # <<>> /\ error[q] # <<>>
    /\ output[r] # output[q]
    /\ Resolved(r) /\ Rejected(q)

\* C25: an external process is spawned only on behalf of a request that
\* presented the configured key as a Bearer token.
C25_SpawnOnlyAuthenticated ==
  \A r \in Reqs : spawns[r] > 0 => req[r].auth

====
